---- MODULE Spec2Model ----
(***************************************************************************)
(* NYC Airbnb prediction service: the serving-time feature pipeline        *)
(* (backend/app.py), the request handlers around it as the server's        *)
(* threads run them, and the training script (ml_models/train_models.py)   *)
(* with its feature construction.                                          *)
(*                                                                         *)
(* Values.  A JSON / Python value is a record [kind, num, den, str]:       *)
(*   kind "num"  : the rational num/den in lowest terms, den > 0 (Python   *)
(*                 int and float; 1 and 1.0 are the same value, as 1 ==    *)
(*                 1.0 in Python),                                         *)
(*   kind "str"  : the string str,                                         *)
(*   kind "none" : None / JSON null,                                       *)
(*   kind "list" : a JSON array (unhashable, not a number),                *)
(*   kind "nan"  : the float NaN numpy stores for None,                    *)
(*   kind "inf"  : the float inf.                                          *)
(* A dict is a function whose domain is its key set.                       *)
(***************************************************************************)
EXTENDS Integers, Sequences, FiniteSets, TLC

VARIABLES
    pc,               \* position of the process: boot/serving, or of a pipeline run
    disk,             \* the artifacts under ml_models/models: name -> missing/ok/corrupt
    price_model,      \* app.py global, line 26
    demand_model,     \* app.py global, line 27
    feature_columns,  \* app.py global, line 28
    metadata,         \* app.py global, line 29
    threads,          \* per server thread: the request it handles, the handler's
                      \* position in it and its locals, and the response once given
    df,               \* the frame handed to train_models.py engineer_features
    raw,              \* the raw listing handed to the feature pipeline
    feat,             \* the outcome of engineer_features on raw
    vec               \* the outcome of prepare_features_array on feat

vars == <<pc, disk, price_model, demand_model, feature_columns, metadata,
          threads, df, raw, feat, vec>>

globals == <<price_model, demand_model, feature_columns, metadata>>

----------------------------------------------------------------------------
(* Numbers                                                                 *)

Abs(x) == IF x < 0 THEN -x ELSE x

RECURSIVE GCD(_, _)
GCD(a, b) == IF b = 0 THEN a ELSE GCD(b, a % b)

\* The rational n/d (d # 0) in lowest terms with a positive denominator.
Rat(n, d) ==
    LET g == GCD(Abs(n), Abs(d))
        s == IF d < 0 THEN -1 ELSE 1
    IN [kind |-> "num", num |-> (s * n) \div g, den |-> (s * d) \div g, str |-> ""]

IntV(n) == Rat(n, 1)
Str(s) == [kind |-> "str", num |-> 0, den |-> 1, str |-> s]
NoneV  == [kind |-> "none", num |-> 0, den |-> 1, str |-> ""]
ListV  == [kind |-> "list", num |-> 0, den |-> 1, str |-> ""]
NaN    == [kind |-> "nan", num |-> 0, den |-> 1, str |-> ""]
Inf    == [kind |-> "inf", num |-> 0, den |-> 1, str |-> ""]

IsNumber(v) == v.kind = "num"

\* a / b, a > b, a < b on numbers (b # 0 for Div)
Div(a, b)  == Rat(a.num * b.den, a.den * b.num)
Gt(a, b)   == a.num * b.den > b.num * a.den
Lt(a, b)   == a.num * b.den < b.num * a.den

\* dict.get(key, default)
Get(d, key, default) == IF key \in DOMAIN d THEN d[key] ELSE default

\* the outcome of a call: a value, or an exception
Return(v)      == [raised |-> FALSE, exc |-> "", msg |-> "", value |-> v]
Raise(e, m)    == [raised |-> TRUE, exc |-> e, msg |-> m, value |-> <<>>]

----------------------------------------------------------------------------
(* Feature Engineer, serving side: app.py engineer_features                *)

NumericRawFields ==
    {"latitude", "longitude", "minimum_nights", "number_of_reviews",
     "reviews_per_month", "calculated_host_listings_count", "availability_365"}

\* the defaults of the input_data.get calls
RawDefault ==
    [k \in NumericRawFields |->
        CASE k = "latitude" -> Rat(407580, 10000)
          [] k = "longitude" -> Rat(-739855, 10000)
          [] k = "minimum_nights" -> IntV(1)
          [] k = "number_of_reviews" -> IntV(0)
          [] k = "reviews_per_month" -> IntV(0)
          [] k = "calculated_host_listings_count" -> IntV(1)
          [] k = "availability_365" -> IntV(365)]

DefaultRoomType == Str("Entire home/apt")
DefaultNeighbourhoodGroup == Str("Manhattan")
DefaultNeighbourhood == Str("Harlem")

RoomTypes == <<"Entire home/apt", "Private room", "Shared room">>
NeighbourhoodGroups == <<"Bronx", "Brooklyn", "Manhattan", "Queens", "Staten Island">>

\* the serving frequency table, in thousandths
neighbourhood_freq ==
    ("Harlem" :> Rat(54, 1000)) @@ ("Williamsburg" :> Rat(78, 1000)) @@
    ("Upper West Side" :> Rat(42, 1000)) @@ ("Bedford-Stuyvesant" :> Rat(76, 1000)) @@
    ("East Village" :> Rat(35, 1000)) @@ ("Brooklyn Heights" :> Rat(20, 1000)) @@
    ("Astoria" :> Rat(28, 1000)) @@ ("Bushwick" :> Rat(47, 1000)) @@
    ("Crown Heights" :> Rat(31, 1000)) @@ ("Upper East Side" :> Rat(34, 1000))

UnknownNeighbourhoodFreq == Rat(1, 100)

\* 1 if value == 'name' else 0
Indicator(value, name) == IF value = Str(name) THEN IntV(1) ELSE IntV(0)

\* {prefix + name: indicator} for each category name
OneHot(prefix, names, value) ==
    [c \in {prefix \o names[i] : i \in DOMAIN names} |->
        LET i == CHOOSE j \in DOMAIN names : prefix \o names[j] = c
        IN Indicator(value, names[i])]

\* neighbourhood_freq.get(neighbourhood, 0.01)
FreqLookup(neighbourhood) ==
    IF neighbourhood.kind = "str" /\ neighbourhood.str \in DOMAIN neighbourhood_freq
    THEN neighbourhood_freq[neighbourhood.str]
    ELSE UnknownNeighbourhoodFreq

\* input_data is the parsed request body: [kind |-> "dict", items |-> dict] or a
\* non-mapping value, on which .get does not exist.
engineer_features(input_data) ==
    IF input_data.kind # "dict"
    THEN Raise("AttributeError", "object has no attribute 'get'")
    ELSE
    LET d == input_data.items
        base == [k \in NumericRawFields |-> Get(d, k, RawDefault[k])]
        avail == base["availability_365"]
        nrev == base["number_of_reviews"]
        rpm == base["reviews_per_month"]
        nights == base["minimum_nights"]
        room_type == Get(d, "room_type", DefaultRoomType)
        neighbourhood_group == Get(d, "neighbourhood_group", DefaultNeighbourhoodGroup)
        neighbourhood == Get(d, "neighbourhood", DefaultNeighbourhood)
    IN  IF ~IsNumber(avail)
        THEN Raise("TypeError", "unsupported operand type(s) for /")
        ELSE IF ~IsNumber(nrev)
        THEN Raise("TypeError", "'>' not supported")
        ELSE IF Gt(nrev, IntV(0)) /\ ~IsNumber(rpm)
        THEN Raise("TypeError", "unsupported operand type(s) for /")
        ELSE IF ~IsNumber(nights)
        THEN Raise("TypeError", "unsupported operand type(s) for /")
        ELSE IF neighbourhood.kind = "list"
        THEN Raise("TypeError", "unhashable type: 'list'")
        ELSE Return(
            base
            @@ ("availability_ratio" :> Div(avail, IntV(365)))
            @@ ("reviews_density" :>
                    IF Gt(nrev, IntV(0)) THEN Div(rpm, nrev) ELSE IntV(0))
            @@ ("min_nights_ratio" :> Div(nights, IntV(365)))
            @@ OneHot("room_type_", RoomTypes, room_type)
            @@ OneHot("neighbourhood_group_", NeighbourhoodGroups, neighbourhood_group)
            @@ ("neighbourhood_encoded" :> FreqLookup(neighbourhood)))

----------------------------------------------------------------------------
(* Vector Aligner: app.py prepare_features_array                           *)

\* The global feature_columns: None, or the list joblib loaded.
NoColumns == [is_none |-> TRUE, cols |-> <<>>]
Columns(cols) == [is_none |-> FALSE, cols |-> cols]

\* float(s) for the strings float() parses: digits, a fraction, an exponent,
\* surrounding blanks, inf and nan
NumericStrings ==
    ("7" :> IntV(7)) @@ ("7.5" :> Rat(15, 2)) @@ ("1e3" :> IntV(1000)) @@
    (" 7 " :> IntV(7)) @@ ("inf" :> Inf) @@ ("nan" :> NaN)

\* the strings float() rejects
NotFloatStrings == {"abc", ""}

\* feature_array[i] = v on a float64 array: numbers are stored, None becomes
\* NaN, a string goes through float(s), a list raises.  The strings are those
\* of NumericStrings and NotFloatStrings; the function is not defined on others.
ToFloat(v) ==
    CASE v.kind = "num" -> Return(v)
      [] v.kind = "nan" -> Return(NaN)
      [] v.kind = "inf" -> Return(Inf)
      [] v.kind = "none" -> Return(NaN)
      [] v.kind = "str" /\ v.str \in DOMAIN NumericStrings -> Return(NumericStrings[v.str])
      [] v.kind = "str" /\ v.str \in NotFloatStrings ->
            Raise("ValueError", "could not convert string to float")
      [] v.kind = "list" ->
            Raise("ValueError", "setting an array element with a sequence.")

\* the zeros array with entry i overwritten when the column is a key
Entry(features_dict, col) ==
    IF col \in DOMAIN features_dict THEN ToFloat(features_dict[col]) ELSE Return(IntV(0))

\* columns is the global feature_columns the function reads.  The result is
\* the 1 x n array of reshape(1, -1): a one-element sequence holding the row.
prepare_features_array(features_dict, columns) ==
    IF columns.is_none
    THEN Raise("ValueError", "Feature columns not loaded")
    ELSE
    LET n == Len(columns.cols)
        bad == {i \in 1..n : Entry(features_dict, columns.cols[i]).raised}
    IN  IF bad # {}
        THEN LET i == CHOOSE j \in bad : \A k \in bad : j <= k
             IN Entry(features_dict, columns.cols[i])
        ELSE Return(<<[i \in 1..n |-> Entry(features_dict, columns.cols[i]).value]>>)

----------------------------------------------------------------------------
(* Training side: train_models.py                                          *)

\* main: generate_realistic_nyc_airbnb_data(n_samples=4000)
NSamples == 4000

\* len(range(lo, hi)) and len(np.arange(n))
RangeLen(lo, hi) == IF hi > lo THEN hi - lo ELSE 0
ArangeLen(n) == n

\* np.random.choice(a, size, p=p) on a of a_len values and p of p_len
\* probabilities: the two sizes must agree
choice(a_len, p_len) ==
    IF a_len # p_len
    THEN Raise("ValueError", "'a' and 'p' must have same size")
    ELSE Return(<<>>)

\* generate_realistic_nyc_airbnb_data(n_samples).  The data dict draws
\* calculated_host_listings_count from range(1, 50) with the probabilities of
\* np.arange(50): 49 values against 50 probabilities, so the draw raises for
\* every n_samples and no frame is returned.  Past that draw the price is an
\* int64 array to which a float64 array is added in place, which raises too.
generate_realistic_nyc_airbnb_data(n_samples) ==
    LET hosts == choice(RangeLen(1, 50), ArangeLen(50))
    IN  IF hosts.raised
        THEN hosts
        ELSE Raise("UFuncTypeError",
                   "Cannot cast ufunc 'add' output from dtype('float64') to dtype('int64')")

\* the keys of the data dict, then the two target columns
GeneratedColumns ==
    <<"latitude", "longitude", "room_type", "neighbourhood_group", "neighbourhood",
      "minimum_nights", "number_of_reviews", "reviews_per_month",
      "calculated_host_listings_count", "availability_365", "price", "high_demand">>

\* the raw attributes of a listing: the generated columns without the targets
RawColumns == SubSeq(GeneratedColumns, 1, 10)

\* the neighbourhoods of the data dict
Neighbourhoods ==
    <<"Harlem", "Williamsburg", "Upper West Side", "Bedford-Stuyvesant", "East Village",
      "Brooklyn Heights", "Astoria", "Bushwick", "Crown Heights", "Upper East Side">>

\* np.where(cond, x, 0)
Where(cond, x) == IF cond THEN x ELSE IntV(0)

\* df['neighbourhood'].value_counts(normalize=True).to_dict()
value_counts_normalize(rows, col) ==
    [v \in {rows[i][col].str : i \in DOMAIN rows} |->
        Rat(Cardinality({i \in DOMAIN rows : rows[i][col].str = v}), Len(rows))]

\* the values a column takes in the frame
Present(rows, col) == {rows[i][col] : i \in DOMAIN rows}

\* the categories of names (which is sorted) that occur in the column:
\* pd.get_dummies makes one column per category present, in sorted order
DummyCategories(rows, col, names) ==
    SelectSeq(names, LAMBDA c : Str(c) \in Present(rows, col))

\* pd.get_dummies(df[col], prefix=prefix) for one row
get_dummies(row, col, prefix, cats) ==
    [c \in {prefix \o cats[i] : i \in DOMAIN cats} |->
        LET i == CHOOSE j \in DOMAIN cats : prefix \o cats[j] = c
        IN IF row[col] = Str(cats[i]) THEN IntV(1) ELSE IntV(0)]

Prefixed(prefix, cats) == [i \in DOMAIN cats |-> prefix \o cats[i]]

\* train_models.py engineer_features(df); a frame is [columns, rows]
train_engineer_features(frame) ==
    LET rows == frame.rows
        room_cats == DummyCategories(rows, "room_type", RoomTypes)
        group_cats == DummyCategories(rows, "neighbourhood_group", NeighbourhoodGroups)
        freq == value_counts_normalize(rows, "neighbourhood")
        one(row) ==
            row
            @@ ("availability_ratio" :> Div(row["availability_365"], IntV(365)))
            @@ ("reviews_density" :>
                    Where(Gt(row["number_of_reviews"], IntV(0)),
                          IF row["number_of_reviews"].num = 0 THEN NaN
                          ELSE Div(row["reviews_per_month"], row["number_of_reviews"])))
            @@ ("min_nights_ratio" :> Div(row["minimum_nights"], IntV(365)))
            @@ ("neighbourhood_encoded" :> freq[row["neighbourhood"].str])
            @@ get_dummies(row, "room_type", "room_type_", room_cats)
            @@ get_dummies(row, "neighbourhood_group", "neighbourhood_group_", group_cats)
    IN  [columns |-> frame.columns
                     \o <<"availability_ratio", "reviews_density", "min_nights_ratio",
                          "neighbourhood_encoded">>
                     \o Prefixed("room_type_", room_cats)
                     \o Prefixed("neighbourhood_group_", group_cats),
         rows |-> [i \in DOMAIN rows |-> one(rows[i])]]

ExcludedColumns == {"price", "high_demand", "neighbourhood"}

\* main, line 182: feature_cols, a local of main
feature_cols(frame) == SelectSeq(frame.columns, LAMBDA c : c \notin ExcludedColumns)

\* ceil(test_size * n_samples) for test_size=0.2
TestLen(n) == (n + 4) \div 5

\* train_test_split(X, y, test_size=0.2, random_state=42) on X of n_X rows and
\* y of n_y: the lengths of the train and test parts.  The arrays must be of
\* one length, and the train part must not be empty.
train_test_split(n_X, n_y) ==
    IF n_X # n_y
    THEN Raise("ValueError", "Found input variables with inconsistent numbers of samples")
    ELSE IF n_X - TestLen(n_X) <= 0
    THEN Raise("ValueError", "the resulting train set will be empty")
    ELSE Return([train |-> n_X - TestLen(n_X), test |-> TestLen(n_X)])

\* main, lines 185-199, on a frame of n rows.  The third split rebinds X_train
\* to its own train part, and the fourth gives that X_train together with the
\* y_demand_train of the second split, which is longer.
main_splits(n) ==
    LET first == train_test_split(n, n)
        second == train_test_split(n, n)
        third == train_test_split(first.value.train, first.value.train)
        fourth == train_test_split(third.value.train, second.value.train)
    IN  IF first.raised THEN first
        ELSE IF second.raised THEN second
        ELSE IF third.raised THEN third
        ELSE fourth

\* the columns of the data dict that hold text
TextColumns == {"room_type", "neighbourhood_group", "neighbourhood"}

\* RandomForestRegressor.fit(X_train, y_train), line 83: X_train is converted
\* to floats, which raises on a column of strings
fit(cols) ==
    IF \E i \in DOMAIN cols : cols[i] \in TextColumns
    THEN Raise("ValueError", "could not convert string to float")
    ELSE Return("RandomForestRegressor")

\* main, lines 185-204, on the engineered frame: the splits, then the fit of
\* the price model on the columns of feature_cols
main_train(frame) ==
    LET splits == main_splits(Len(frame.rows))
    IN  IF splits.raised THEN splits ELSE fit(feature_cols(frame))

\* main, lines 174-204: the dataset, its features, the splits and the fit.
\* The first of them that raises ends the script.
main ==
    LET data == generate_realistic_nyc_airbnb_data(NSamples)
    IN  IF data.raised THEN data ELSE main_train(train_engineer_features(data.value))

\* the metadata document of metadata.json, as main lays it out
TrainedMetadata(cols) ==
    [is_none |-> FALSE,
     doc |-> [price_model |-> [version |-> "1.0"],
              demand_model |-> [version |-> "1.0"],
              feature_columns |-> cols]]

NoMetadata ==
    [is_none |-> TRUE,
     doc |-> [price_model |-> [version |-> ""], demand_model |-> [version |-> ""],
              feature_columns |-> <<>>]]

----------------------------------------------------------------------------
(* Startup: app.py load_models                                             *)

NoModel == "None"

\* the artifacts in the order load_models reads them
Artifacts == <<"price_model.joblib", "demand_model.pkl", "feature_columns.joblib",
               "metadata.json">>

\* The globals after load_models on the directory dsk.  An artifact is loaded
\* when its file exists and no earlier load raised: the one try block covers
\* the four loads, so a load that raises leaves the later globals None.
load_models(dsk) ==
    LET corrupt == {i \in DOMAIN Artifacts : dsk.status[Artifacts[i]] = "corrupt"}
        loaded(i) == /\ dsk.status[Artifacts[i]] = "ok"
                     /\ \A j \in corrupt : i < j
    IN  [price_model |-> IF loaded(1) THEN "RandomForestRegressor" ELSE NoModel,
         demand_model |-> IF loaded(2) THEN "LightGBMBooster" ELSE NoModel,
         feature_columns |-> IF loaded(3) THEN Columns(dsk.columns) ELSE NoColumns,
         metadata |-> IF loaded(4) THEN TrainedMetadata(dsk.columns) ELSE NoMetadata]

----------------------------------------------------------------------------
(* Request handlers: app.py                                                *)

\* the request body: not JSON at all, or a parsed JSON value
Body(kind, items) == [kind |-> kind, items |-> items, row |-> 0]
NotJson == Body("not_json", <<>>)
Dict(items) == Body("dict", items)

\* request.get_json() on a body sent as application/json.  The app runs with
\* debug=False (line 261), where a body that does not parse gives a plain
\* BadRequest, whose str is the status line and the default description.
get_json(req) ==
    IF req.kind = "not_json"
    THEN Raise("BadRequest",
               "400 Bad Request: The browser (or proxy) sent a request that this server could not understand.")
    ELSE Return(req)

NoRecord == [prediction_type |-> "none"]

Unused == Raise("", "")

\* What a handler, or the last part of one, did: the response (status, body),
\* the record it handed to the insert (NoRecord when it made no insert), the
\* number of inferences and of inserts the request made, and the globals it
\* leaves.
Outcome(status, body, record, inferences, inserts, g) ==
    [status |-> status, body |-> body, record |-> record,
     inferences |-> inferences, inserts |-> inserts, g |-> g]

ErrorBody(msg) == [error |-> msg]

\* A thread's frame: the handler it runs (endpoint), its position (pc), the
\* request, the handler's locals, the counts of inferences and inserts made so
\* far, and the response once the handler has returned (pc = "done").
Idle ==
    [pc |-> "idle", endpoint |-> "none", request |-> NotJson, features_dict |-> <<>>,
     model_out |-> Unused, predicted |-> NoneV, predicted_class |-> "",
     confidence |-> NoneV, record |-> NoRecord, sink_out |-> Unused,
     status |-> 0, body |-> ErrorBody(""), inferences |-> 0, inserts |-> 0]

\* the frame of a request that has reached its handler
Arrived(endpoint, req) ==
    [Idle EXCEPT !.pc = "start", !.endpoint = endpoint, !.request = req]

\* return jsonify(body), status
Respond(f, status, body) == [f EXCEPT !.pc = "done", !.status = status, !.body = body]

\* one step of a handler: the frame and the globals it leaves
Step(f, g) == [frame |-> f, g |-> g]

\* the frame of a handler that ran from start to return with outcome o
Finish(f, o) ==
    Step([Respond(f, o.status, o.body) EXCEPT
             !.record = o.record, !.inferences = o.inferences, !.inserts = o.inserts],
         o.g)

\* response.data[0]['id'] if response.data else None, None when the insert raised
PredictionId(sink_out) ==
    IF sink_out.raised THEN NoneV
    ELSE IF sink_out.value # <<>> THEN sink_out.value[1].id ELSE NoneV

\* metadata[model]['version'] if metadata else '1.0'
ModelVersion(md, model) ==
    IF md.is_none THEN "1.0"
    ELSE IF model = "price_model" THEN md.doc.price_model.version
    ELSE md.doc.demand_model.version

\* np.clip(x, lo, hi)
Clip(x, lo, hi) == IF Lt(x, lo) THEN lo ELSE IF Gt(x, hi) THEN hi ELSE x

\* max(a, b)
Max(a, b) == IF Gt(b, a) THEN b ELSE a

PriceFloor == 10

\* predict_demand guarded by the other handler's global
DemandModelMissing_wrongGlobal(g) == g.price_model = NoModel

\* if price_model is None / if demand_model is None
PriceModelMissing(g) == g.price_model = NoModel
DemandModelMissing(g) == g.demand_model = NoModel

\* model.predict on a global that is None
NoPredict == Raise("AttributeError", "'NoneType' object has no attribute 'predict'")

\* the floor left out
FloorPrice_none(x) == x

\* max(10, predicted_price)
FloorPrice(x) == Max(IntV(PriceFloor), x)

DemandThreshold == Rat(1, 2)

\* the tie counted as high demand
DemandClass_inclusive(probability) ==
    IF Lt(probability, DemandThreshold) THEN "low-demand" ELSE "high-demand"

\* 'high-demand' if probability > 0.5 else 'low-demand'
DemandClass(probability) ==
    IF Gt(probability, DemandThreshold) THEN "high-demand" ELSE "low-demand"

\* the insert outside any inner try: its exception reaches the handler's except
PersistAndRespond_unguarded(sink_out, record, result, g) ==
    IF sink_out.raised
    THEN Outcome(500, ErrorBody(sink_out.msg), record, 1, 1, g)
    ELSE Outcome(200, [result EXCEPT !.prediction_id = PredictionId(sink_out)],
                 record, 1, 1, g)

\* a second insert after a failed one
PersistAndRespond_retry(sink_out, record, result, g) ==
    Outcome(200, [result EXCEPT !.prediction_id = PredictionId(sink_out)], record, 1,
            IF sink_out.raised \/ sink_out.value = <<>> THEN 2 ELSE 1, g)

\* The inner try of both handlers once the sink has answered the insert, and
\* the response after it: the one insert's failure leaves prediction_id None,
\* then the 200 response.
PersistAndRespond(sink_out, record, result, g) ==
    Outcome(200, [result EXCEPT !.prediction_id = PredictionId(sink_out)], record, 1, 1, g)

\* predict_price, lines 146-147: the guard.
\* g: the globals as the thread reads them; f: the thread's frame.
predict_price_start(g, f) ==
    IF PriceModelMissing(g)
    THEN Step(Respond(f, 500, ErrorBody("Price model not loaded")), g)
    ELSE Step([f EXCEPT !.pc = "features"], g)

\* predict_price, lines 150-153: the body is read, then the features and the vector
predict_price_features(g, f) ==
    LET input_data == get_json(f.request)
        features_dict == engineer_features(input_data.value)
        feature_array == prepare_features_array(features_dict.value, g.feature_columns)
    IN  IF input_data.raised
        THEN Step(Respond(f, 500, ErrorBody(input_data.msg)), g)
        ELSE IF features_dict.raised
        THEN Step(Respond(f, 500, ErrorBody(features_dict.msg)), g)
        ELSE IF feature_array.raised
        THEN Step(Respond(f, 500, ErrorBody(feature_array.msg)), g)
        ELSE Step([f EXCEPT !.pc = "predict", !.features_dict = features_dict.value], g)

\* predict_price, line 155: price_model.predict(feature_array); model_out is
\* what the model gives on the vector
predict_price_predict(g, f, model_out) ==
    LET out == IF g.price_model = NoModel THEN NoPredict ELSE model_out
        ran == IF g.price_model = NoModel THEN 0 ELSE 1
    IN  IF out.raised
        THEN Step(Respond([f EXCEPT !.model_out = out, !.inferences = ran],
                          500, ErrorBody(out.msg)), g)
        ELSE Step([f EXCEPT !.pc = "insert", !.model_out = out, !.inferences = ran], g)

\* predict_price, lines 156-169: the floor, the np.random.uniform draw
\* (confidence), the record, and the insert handed to the sink
predict_price_insert(g, f, confidence) ==
    LET predicted_price == FloorPrice(f.model_out.value)
        prediction_record ==
            [prediction_type |-> "price",
             predicted_value |-> predicted_price,
             confidence_score |-> confidence,
             model_version |-> ModelVersion(g.metadata, "price_model"),
             input_features |-> f.features_dict]
    IN  Step([f EXCEPT !.pc = "wait", !.predicted = predicted_price,
                       !.confidence = confidence, !.record = prediction_record,
                       !.inserts = 1], g)

\* predict_price, lines 169-182: the sink's answer to the insert (sink_out),
\* the result and the response
predict_price_respond(g, f, sink_out) ==
    LET result ==
            [prediction_id |-> NoneV,
             predicted_price |-> f.predicted,
             confidence |-> f.confidence,
             model_version |->
                "RandomForestRegressor-v" \o ModelVersion(g.metadata, "price_model")]
        o == PersistAndRespond(sink_out, f.record, result, g)
    IN  Step([Respond(f, o.status, o.body) EXCEPT
                 !.sink_out = sink_out, !.record = o.record, !.inserts = o.inserts],
             o.g)

\* predict_demand, lines 192-193: the guard.
predict_demand_start(g, f) ==
    IF DemandModelMissing(g)
    THEN Step(Respond(f, 500, ErrorBody("Demand model not loaded")), g)
    ELSE Step([f EXCEPT !.pc = "features"], g)

\* predict_demand, lines 196-199: the body is read, then the features and the vector
predict_demand_features(g, f) ==
    LET input_data == get_json(f.request)
        features_dict == engineer_features(input_data.value)
        feature_array == prepare_features_array(features_dict.value, g.feature_columns)
    IN  IF input_data.raised
        THEN Step(Respond(f, 500, ErrorBody(input_data.msg)), g)
        ELSE IF features_dict.raised
        THEN Step(Respond(f, 500, ErrorBody(features_dict.msg)), g)
        ELSE IF feature_array.raised
        THEN Step(Respond(f, 500, ErrorBody(feature_array.msg)), g)
        ELSE Step([f EXCEPT !.pc = "predict", !.features_dict = features_dict.value], g)

\* predict_demand, line 201: demand_model.predict(feature_array)
predict_demand_predict(g, f, model_out) ==
    LET out == IF g.demand_model = NoModel THEN NoPredict ELSE model_out
        ran == IF g.demand_model = NoModel THEN 0 ELSE 1
    IN  IF out.raised
        THEN Step(Respond([f EXCEPT !.model_out = out, !.inferences = ran],
                          500, ErrorBody(out.msg)), g)
        ELSE Step([f EXCEPT !.pc = "insert", !.model_out = out, !.inferences = ran], g)

\* predict_demand, lines 202-215: the clip, the class, the record, and the
\* insert handed to the sink
predict_demand_insert(g, f) ==
    LET probability == Clip(f.model_out.value, IntV(0), IntV(1))
        predicted_class == DemandClass(probability)
        prediction_record ==
            [prediction_type |-> "demand",
             predicted_class |-> predicted_class,
             confidence_score |-> probability,
             model_version |-> ModelVersion(g.metadata, "demand_model"),
             input_features |-> f.features_dict]
    IN  Step([f EXCEPT !.pc = "wait", !.predicted = probability,
                       !.predicted_class = predicted_class,
                       !.record = prediction_record, !.inserts = 1], g)

\* predict_demand, lines 215-228
predict_demand_respond(g, f, sink_out) ==
    LET result ==
            [prediction_id |-> NoneV,
             predicted_class |-> f.predicted_class,
             probability |-> f.predicted,
             model_version |->
                "LightGBMClassifier-v" \o ModelVersion(g.metadata, "demand_model")]
        o == PersistAndRespond(sink_out, f.record, result, g)
    IN  Step([Respond(f, o.status, o.body) EXCEPT
                 !.sink_out = sink_out, !.record = o.record, !.inserts = o.inserts],
             o.g)

\* predict_price from the request to the response with no other thread in
\* between: what it answers to req from the globals g when the model gives
\* model_out, the draw is confidence and the sink gives sink_out
predict_price(g, req, model_out, confidence, sink_out) ==
    LET s0 == predict_price_start(g, Arrived("predict_price", req)).frame
        s1 == IF s0.pc = "done" THEN s0 ELSE predict_price_features(g, s0).frame
        s2 == IF s1.pc = "done" THEN s1 ELSE predict_price_predict(g, s1, model_out).frame
        s3 == IF s2.pc = "done" THEN s2 ELSE predict_price_insert(g, s2, confidence).frame
    IN  IF s3.pc = "done" THEN s3 ELSE predict_price_respond(g, s3, sink_out).frame

predict_demand(g, req, model_out, sink_out) ==
    LET s0 == predict_demand_start(g, Arrived("predict_demand", req)).frame
        s1 == IF s0.pc = "done" THEN s0 ELSE predict_demand_features(g, s0).frame
        s2 == IF s1.pc = "done" THEN s1 ELSE predict_demand_predict(g, s1, model_out).frame
        s3 == IF s2.pc = "done" THEN s2 ELSE predict_demand_insert(g, s2).frame
    IN  IF s3.pc = "done" THEN s3 ELSE predict_demand_respond(g, s3, sink_out).frame

health(g) ==
    Outcome(200,
            [status |-> "healthy",
             models_loaded |-> [price_model |-> g.price_model # NoModel,
                                demand_model |-> g.demand_model # NoModel,
                                feature_columns |-> ~g.feature_columns.is_none]],
            NoRecord, 0, 0, g)

\* metadata filled in on first use instead of at startup only
get_metadata_lazy(g) ==
    IF g.metadata.is_none
    THEN Outcome(200, TrainedMetadata(<<>>).doc, NoRecord, 0, 0,
                 [g EXCEPT !.metadata = TrainedMetadata(<<>>)])
    ELSE Outcome(200, g.metadata.doc, NoRecord, 0, 0, g)

get_metadata(g) ==
    IF g.metadata.is_none
    THEN Outcome(500, ErrorBody("Metadata not available"), NoRecord, 0, 0, g)
    ELSE Outcome(200, g.metadata.doc, NoRecord, 0, 0, g)

\* get_predictions, line 239: the select handed to the sink
get_predictions_select(g, f) == Step([f EXCEPT !.pc = "wait"], g)

\* get_predictions, lines 239-243: select_out is what the select ... limit(50)
\* gives
get_predictions(g, select_out) ==
    IF select_out.raised
    THEN Outcome(500, ErrorBody(select_out.msg), NoRecord, 0, 0, g)
    ELSE Outcome(200, [predictions |-> select_out.value], NoRecord, 0, 0, g)

----------------------------------------------------------------------------
(* Bounds and the inputs drawn within them                                 *)

MaxRows == 2        \* rows of a frame beyond the ten that hold every category
MaxPresent == 1     \* raw fields present in a request of the pipeline runs
MaxSchemaLen == 2   \* columns of a schema of the pipeline runs
MaxId == 2          \* ids the sink assigns
MaxDev == 1         \* model outputs this many steps around a threshold
MaxThreads == 2     \* requests the server handles at the same time

\* a listing with every raw attribute of the data dict
Listing(lat, lon, rt, ng, nb, nights, nrev, rpm, hosts, avail) ==
    ("latitude" :> lat) @@ ("longitude" :> lon) @@ ("room_type" :> Str(rt)) @@
    ("neighbourhood_group" :> Str(ng)) @@ ("neighbourhood" :> Str(nb)) @@
    ("minimum_nights" :> IntV(nights)) @@ ("number_of_reviews" :> IntV(nrev)) @@
    ("reviews_per_month" :> rpm) @@ ("calculated_host_listings_count" :> IntV(hosts)) @@
    ("availability_365" :> avail)

\* a row of the frame engineer_features is given: the listing and its targets
FrameRow(r, price, high_demand) ==
    r @@ ("price" :> price) @@ ("high_demand" :> IntV(high_demand))

\* ten rows in which every neighbourhood, room type and neighbourhood group
\* of the data dict occurs
CoverRows ==
    [i \in 1..Len(Neighbourhoods) |->
        FrameRow(Listing(Rat(4075, 100), Rat(-7399, 100), RoomTypes[((i - 1) % 3) + 1],
                         NeighbourhoodGroups[((i - 1) % 5) + 1], Neighbourhoods[i],
                         2, 4 * i, Rat(3, 2), 1, IntV(200)),
                 IntV(150), 0)]

\* the rows a frame has beyond those
FrameRows ==
    {FrameRow(Listing(Rat(4075, 100), Rat(-7399, 100), rt, ng, "Astoria", 7, nrev,
                      Rat(5, 2), 3, IntV(73)),
              IntV(10), 1) :
        rt \in {"Private room", "Shared room"},
        ng \in {"Manhattan", "Queens"},
        nrev \in {0, 12}}

\* Arguments of the function engineer_features of train_models.py: frames
\* with the columns of the data dict and the two targets, every category
\* present, and 1..MaxRows further rows.  They are not values of main, which
\* gets no frame from the generator.
TrainingFrames ==
    {[columns |-> GeneratedColumns, rows |-> CoverRows \o rows] :
        rows \in UNION {[1..n -> FrameRows] : n \in 1..MaxRows}}

EmptyFrame == [columns |-> <<>>, rows |-> <<>>]

CoverFrame == [columns |-> GeneratedColumns, rows |-> CoverRows]

\* The column list in feature_columns.joblib, which the service reads as it
\* finds it: the list the expression of line 182 gives on a frame holding
\* every category.  No run of train_models.py writes the file.
SavedColumns == feature_cols(train_engineer_features(CoverFrame))

\* the raw attributes of row i of a frame, as a request body
ListingOf(frame, i) ==
    [kind |-> "dict",
     items |-> [c \in {RawColumns[j] : j \in DOMAIN RawColumns} |-> frame.rows[i][c]],
     row |-> i]

\* the values a request may carry for a raw field
FieldValues(f) ==
    CASE f \in NumericRawFields -> {IntV(4), NoneV, Str("abc"), Str("7"), Str("1e3")}
      [] f = "room_type" -> {Str("Private room"), Str("Loft"), NoneV}
      [] f = "neighbourhood_group" -> {Str("Queens"), Str("Jersey"), NoneV}
      [] f = "neighbourhood" -> {Str("Astoria"), Str("Soho"), NoneV, ListV}

RawFields == NumericRawFields \cup {"room_type", "neighbourhood_group", "neighbourhood"}

\* the mappings with at most MaxPresent fields present
RawMappings ==
    UNION {UNION {{m \in [S -> UNION {FieldValues(f) : f \in S}] :
                        \A f \in S : m[f] \in FieldValues(f)} :
                  S \in {T \in SUBSET RawFields : Cardinality(T) = n}} :
           n \in 0..MaxPresent}

RawInputs == {Dict(m) : m \in RawMappings} \cup {Body("none", <<>>), Body("list", <<>>)}

SchemaNames == {"latitude", "room_type", "reviews_density", "room_type_Shared room"}

FeatSchemas ==
    {NoColumns, Columns(SavedColumns)} \cup
    {Columns(cols) : cols \in UNION {[1..n -> SchemaNames] : n \in 0..MaxSchemaLen}}

\* the request bodies sent to the service
ServiceRequests ==
    {NotJson, Body("none", <<>>), Body("list", <<>>), Dict(<<>>),
     Dict("availability_365" :> NoneV),
     Dict("latitude" :> Str("abc"))}

\* what the models give: a score around the threshold or far from it, or an error
PriceOutputs ==
    {IntV(-5)} \cup {Rat(2 * PriceFloor + k, 2) : k \in -MaxDev..MaxDev}
DemandOutputs ==
    {Rat(-1, 2), Rat(3, 2)} \cup {Rat(50 + k, 100) : k \in -MaxDev..MaxDev}
InferenceError == Raise("ValueError", "Input contains NaN")
PriceOutcomes == {Return(v) : v \in PriceOutputs} \cup {InferenceError}
DemandOutcomes == {Return(v) : v \in DemandOutputs} \cup {InferenceError}

\* np.random.uniform(0.75, 0.95)
Confidences == {Rat(75, 100), Rat(90, 100)}

\* what the sink gives: an error, no row, or the stored row with its id
SinkError == Raise("APIError", "connection refused")
InsertOutcomes ==
    {SinkError, Return(<<>>)} \cup {Return(<<[id |-> IntV(i)]>>) : i \in 1..MaxId}
SelectOutcomes ==
    {SinkError, Return(<<>>)} \cup {Return(<<[id |-> IntV(i)]>>) : i \in 1..MaxId}

----------------------------------------------------------------------------
(* The state machine                                                       *)

G == [price_model |-> price_model, demand_model |-> demand_model,
      feature_columns |-> feature_columns, metadata |-> metadata]

NoGlobals == [price_model |-> NoModel, demand_model |-> NoModel,
              feature_columns |-> NoColumns, metadata |-> NoMetadata]

SetGlobals(g) ==
    /\ price_model' = g.price_model
    /\ demand_model' = g.demand_model
    /\ feature_columns' = g.feature_columns
    /\ metadata' = g.metadata

\* the threads of the server (app.run serves each request in a thread of its own)
Threads == 1..MaxThreads

NoThreads == [t \in Threads |-> Idle]

\* thread t takes the next request: it is idle, or has given its response
Free(t) == threads[t].pc \in {"idle", "done"}

\* thread t is at position p of the handler of endpoint
At(t, endpoint, p) == threads[t].endpoint = endpoint /\ threads[t].pc = p

\* thread t makes the step s
Run(t, s) ==
    /\ threads' = [threads EXCEPT ![t] = s.frame]
    /\ SetGlobals(s.g)

DiskStates ==
    {[status |-> st, columns |-> SavedColumns] :
        st \in [{Artifacts[i] : i \in DOMAIN Artifacts} -> {"missing", "ok", "corrupt"}]}

NoDisk ==
    [status |-> [a \in {Artifacts[i] : i \in DOMAIN Artifacts} |-> "missing"],
     columns |-> <<>>]

\* the module-level state of app.py before __main__ runs, on some model directory
Init ==
    /\ pc = "boot"
    /\ disk \in DiskStates
    /\ price_model = NoModel
    /\ demand_model = NoModel
    /\ feature_columns = NoColumns
    /\ metadata = NoMetadata
    /\ threads = NoThreads
    /\ df = EmptyFrame
    /\ raw = NotJson
    /\ feat = Unused
    /\ vec = Unused

\* __main__: load_models() before app.run
LoadModels ==
    /\ pc = "boot"
    /\ SetGlobals(load_models(disk))
    /\ pc' = "serving"
    /\ UNCHANGED <<disk, threads, df, raw, feat, vec>>

\* POST /predict/price reaches a thread, which passes or fails the guard
PredictPriceStart ==
    /\ pc = "serving"
    /\ \E t \in Threads :
         /\ Free(t)
         /\ \E req \in ServiceRequests :
              \E s \in {predict_price_start(G, Arrived("predict_price", req))} : Run(t, s)
    /\ UNCHANGED <<pc, disk, df, raw, feat, vec>>

\* the thread reads the body and builds the features and the vector
PredictPriceFeatures ==
    /\ pc = "serving"
    /\ \E t \in Threads :
         /\ At(t, "predict_price", "features")
         /\ \E s \in {predict_price_features(G, threads[t])} : Run(t, s)
    /\ UNCHANGED <<pc, disk, df, raw, feat, vec>>

\* the thread calls the price model
PredictPricePredict ==
    /\ pc = "serving"
    /\ \E t \in Threads :
         /\ At(t, "predict_price", "predict")
         /\ \E model_out \in PriceOutcomes :
              \E s \in {predict_price_predict(G, threads[t], model_out)} : Run(t, s)
    /\ UNCHANGED <<pc, disk, df, raw, feat, vec>>

\* the thread builds the record and sends the insert
PredictPriceInsert ==
    /\ pc = "serving"
    /\ \E t \in Threads :
         /\ At(t, "predict_price", "insert")
         /\ \E confidence \in Confidences :
              \E s \in {predict_price_insert(G, threads[t], confidence)} : Run(t, s)
    /\ UNCHANGED <<pc, disk, df, raw, feat, vec>>

\* the sink answers the insert and the thread responds
PredictPriceRespond ==
    /\ pc = "serving"
    /\ \E t \in Threads :
         /\ At(t, "predict_price", "wait")
         /\ \E sink_out \in InsertOutcomes :
              \E s \in {predict_price_respond(G, threads[t], sink_out)} : Run(t, s)
    /\ UNCHANGED <<pc, disk, df, raw, feat, vec>>

PredictDemandStart ==
    /\ pc = "serving"
    /\ \E t \in Threads :
         /\ Free(t)
         /\ \E req \in ServiceRequests :
              \E s \in {predict_demand_start(G, Arrived("predict_demand", req))} : Run(t, s)
    /\ UNCHANGED <<pc, disk, df, raw, feat, vec>>

PredictDemandFeatures ==
    /\ pc = "serving"
    /\ \E t \in Threads :
         /\ At(t, "predict_demand", "features")
         /\ \E s \in {predict_demand_features(G, threads[t])} : Run(t, s)
    /\ UNCHANGED <<pc, disk, df, raw, feat, vec>>

PredictDemandPredict ==
    /\ pc = "serving"
    /\ \E t \in Threads :
         /\ At(t, "predict_demand", "predict")
         /\ \E model_out \in DemandOutcomes :
              \E s \in {predict_demand_predict(G, threads[t], model_out)} : Run(t, s)
    /\ UNCHANGED <<pc, disk, df, raw, feat, vec>>

PredictDemandInsert ==
    /\ pc = "serving"
    /\ \E t \in Threads :
         /\ At(t, "predict_demand", "insert")
         /\ \E s \in {predict_demand_insert(G, threads[t])} : Run(t, s)
    /\ UNCHANGED <<pc, disk, df, raw, feat, vec>>

PredictDemandRespond ==
    /\ pc = "serving"
    /\ \E t \in Threads :
         /\ At(t, "predict_demand", "wait")
         /\ \E sink_out \in InsertOutcomes :
              \E s \in {predict_demand_respond(G, threads[t], sink_out)} : Run(t, s)
    /\ UNCHANGED <<pc, disk, df, raw, feat, vec>>

Health ==
    /\ pc = "serving"
    /\ \E t \in Threads :
         /\ Free(t)
         /\ Run(t, Finish(Arrived("health", NotJson), health(G)))
    /\ UNCHANGED <<pc, disk, df, raw, feat, vec>>

GetMetadata ==
    /\ pc = "serving"
    /\ \E t \in Threads :
         /\ Free(t)
         /\ Run(t, Finish(Arrived("get_metadata", NotJson), get_metadata(G)))
    /\ UNCHANGED <<pc, disk, df, raw, feat, vec>>

\* GET /predictions reaches a thread, which sends the select
GetPredictionsSelect ==
    /\ pc = "serving"
    /\ \E t \in Threads :
         /\ Free(t)
         /\ Run(t, get_predictions_select(G, Arrived("get_predictions", NotJson)))
    /\ UNCHANGED <<pc, disk, df, raw, feat, vec>>

\* the sink answers the select and the thread responds
GetPredictionsRespond ==
    /\ pc = "serving"
    /\ \E t \in Threads :
         /\ At(t, "get_predictions", "wait")
         /\ \E select_out \in SelectOutcomes :
              Run(t, Finish(threads[t], get_predictions(G, select_out)))
    /\ UNCHANGED <<pc, disk, df, raw, feat, vec>>

Next ==
    \/ LoadModels
    \/ PredictPriceStart
    \/ PredictPriceFeatures
    \/ PredictPricePredict
    \/ PredictPriceInsert
    \/ PredictPriceRespond
    \/ PredictDemandStart
    \/ PredictDemandFeatures
    \/ PredictDemandPredict
    \/ PredictDemandInsert
    \/ PredictDemandRespond
    \/ Health
    \/ GetMetadata
    \/ GetPredictionsSelect
    \/ GetPredictionsRespond

\* the service: startup, then requests handled by the threads in any interleaving
Spec == Init /\ [][Next]_vars

----------------------------------------------------------------------------
(* Pipeline runs: the Feature Engineer and the Vector Aligner on one listing *)

Engineer ==
    /\ pc = "engineer"
    /\ feat' = engineer_features(raw)
    /\ pc' = IF feat'.raised THEN "done" ELSE "align"
    /\ UNCHANGED <<disk, globals, threads, df, raw, vec>>

Align ==
    /\ pc = "align"
    /\ vec' = prepare_features_array(feat.value, feature_columns)
    /\ pc' = "done"
    /\ UNCHANGED <<disk, globals, threads, df, raw, feat>>

\* any raw input, against any schema state
InitFeat ==
    /\ pc = "engineer"
    /\ disk = NoDisk
    /\ price_model = NoModel
    /\ demand_model = NoModel
    /\ feature_columns \in FeatSchemas
    /\ metadata = NoMetadata
    /\ threads = NoThreads
    /\ df = EmptyFrame
    /\ raw \in RawInputs
    /\ feat = Unused
    /\ vec = Unused

NextFeat == Engineer \/ Align

SpecFeat == InitFeat /\ [][NextFeat]_vars

----------------------------------------------------------------------------
(* Training: the script, and the two feature constructions as functions   *)

\* the state of the global feature_columns that prepare_features_array reads
TrainSchemas == {NoColumns, Columns(SavedColumns)}

\* Either the training script starts (pc = "main"), or the two feature
\* constructions are applied as functions (pc = "train_engineer"): df is the
\* argument of train_models.py engineer_features, raw is a listing of df and
\* the argument of app.py engineer_features, feature_columns is the global
\* prepare_features_array reads.
InitTrain ==
    /\ pc \in {"main", "train_engineer"}
    /\ disk = NoDisk
    /\ price_model = NoModel
    /\ demand_model = NoModel
    /\ feature_columns \in IF pc = "main" THEN {NoColumns} ELSE TrainSchemas
    /\ metadata = NoMetadata
    /\ threads = NoThreads
    /\ df \in IF pc = "main" THEN {EmptyFrame} ELSE TrainingFrames
    /\ raw \in IF pc = "main" THEN {NotJson} ELSE {ListingOf(df, i) : i \in DOMAIN df.rows}
    /\ feat = Unused
    /\ vec = Unused

\* main, lines 167-204.  The generator raises, which ends the script with
\* nothing written: no frame, no split, no fit, no joblib.dump.  Lines
\* 208-251 are not reached.
TrainMain ==
    /\ pc = "main"
    /\ \E o \in {main} : pc' = IF o.raised THEN "main_failed" ELSE "save"
    /\ UNCHANGED <<disk, globals, threads, df, raw, feat, vec>>

\* engineer_features(df) of train_models.py applied to the frame
TrainEngineer ==
    /\ pc = "train_engineer"
    /\ df' = train_engineer_features(df)
    /\ pc' = "engineer"
    /\ UNCHANGED <<disk, globals, threads, raw, feat, vec>>

NextTrain == TrainMain \/ TrainEngineer \/ Engineer \/ Align

SpecTrain == InitTrain /\ [][NextTrain]_vars

----------------------------------------------------------------------------
(* Claims                                                                  *)

\* the frames of the threads
Frames == {threads[t] : t \in Threads}

IsPredict(f) == f.endpoint \in {"predict_price", "predict_demand"}

\* the predict requests that have got their response
Answered == {f \in Frames : IsPredict(f) /\ f.pc = "done"}

\* both constructions have been applied to a listing of the frame
ServedTrainingListing == pc = "done" /\ raw.row > 0

\* the schema prepare_features_array reads is the list the expression of
\* line 182 gives on the engineered frame
SchemaOfTraining == feature_columns = Columns(feature_cols(df))

C2_PersistenceFailureStill200 ==
    \A f \in Answered :
        (/\ f.inferences = 1
         /\ ~f.model_out.raised
         /\ (f.sink_out.raised \/ f.sink_out.value = <<>>))
        => /\ f.status = 200
           /\ f.inserts = 1
           /\ f.body.prediction_id = NoneV
           /\ f.endpoint = "predict_price" =>
                 f.body.predicted_price = f.record.predicted_value
           /\ f.endpoint = "predict_demand" =>
                 f.body.predicted_class = f.record.predicted_class

\* C2, the case: the insert of a price prediction raised
C2_Witness ==
    \E f \in Answered :
        /\ f.endpoint = "predict_price"
        /\ f.inserts = 1
        /\ f.sink_out = SinkError
        /\ f.status = 200
        /\ f.body.prediction_id = NoneV

\* C3: a prediction endpoint whose model is not loaded answers with the
\* "not loaded" error response, with no inference and no insert; and the
\* answer of either endpoint is the same whatever the other endpoint's model
\* is and whatever the other threads did meanwhile: it is what the handler
\* gives from that endpoint's model, the schema and the metadata alone.
C3_ModelUnavailableIsolated ==
    \A f \in Answered :
        /\ (f.endpoint = "predict_price" /\ price_model = NoModel) =>
              /\ f.status = 500
              /\ f.body = ErrorBody("Price model not loaded")
              /\ f.inferences = 0 /\ f.inserts = 0
        /\ (f.endpoint = "predict_demand" /\ demand_model = NoModel) =>
              /\ f.status = 500
              /\ f.body = ErrorBody("Demand model not loaded")
              /\ f.inferences = 0 /\ f.inserts = 0
        /\ f.endpoint = "predict_demand" =>
              \A pm \in {NoModel, "RandomForestRegressor"} :
                  predict_demand([G EXCEPT !.price_model = pm], f.request,
                                 f.model_out, f.sink_out) = f
        /\ f.endpoint = "predict_price" =>
              \A dm \in {NoModel, "LightGBMBooster"} :
                  predict_price([G EXCEPT !.demand_model = dm], f.request,
                                f.model_out, f.confidence, f.sink_out) = f

\* C3, the case: predict_demand answered 200 while the price model is not
\* loaded and a predict_price request got the "not loaded" error
C3_Witness ==
    /\ price_model = NoModel
    /\ demand_model # NoModel
    /\ \E f \in Answered : f.endpoint = "predict_demand" /\ f.status = 200
    /\ \E f \in Answered : f.endpoint = "predict_price" /\ f.status = 500

\* C4: the models, the schema and the metadata never change after startup:
\* every step that changes one of them is load_models at startup, and every
\* step of every request, whatever it answers and whatever the other threads
\* are doing, leaves the four globals unchanged.
C4_GlobalsFrozenAfterStartup ==
    [][/\ (pc = "serving" => UNCHANGED globals)
       /\ (globals' # globals => (pc = "boot" /\ pc' = "serving"))]_vars

\* C4, the case: a request ended in an error with everything loaded, while
\* another request waits for the sink
C4_Witness ==
    /\ price_model # NoModel /\ demand_model # NoModel
    /\ ~feature_columns.is_none /\ ~metadata.is_none
    /\ \E f \in Answered : f.status = 500
    /\ \E f \in Frames : f.pc = "wait"

\* C5: a request body that is not JSON, or is JSON but not an object, gets a
\* client error (4xx) from predict_price and predict_demand when the model
\* and the schema are loaded.
C5_MalformedInputIsClientError ==
    \A f \in Answered :
        (/\ f.request.kind # "dict"
         /\ ~feature_columns.is_none
         /\ f.endpoint = "predict_price" => price_model # NoModel
         /\ f.endpoint = "predict_demand" => demand_model # NoModel)
        => f.status \in 400..499

\* C5, the case: a JSON null body sent to predict_price with everything loaded
C5_Witness ==
    \E f \in Answered :
        /\ f.endpoint = "predict_price"
        /\ f.request.kind = "none"
        /\ price_model # NoModel
        /\ ~feature_columns.is_none
        /\ f.status = 500

\* the raw mapping handed to the Feature Engineer
RawIsMapping == raw.kind = "dict"

\* C6: engineer_features is total: for every raw mapping, a null or
\* non-numeric field included, it returns a feature mapping, in which every
\* missing numeric field has its documented default.
C6_EngineerTotal ==
    (pc # "engineer" /\ RawIsMapping) =>
        /\ ~feat.raised
        /\ \A k \in NumericRawFields \ DOMAIN raw.items : feat.value[k] = RawDefault[k]

\* C6, the case: a mapping whose availability_365 is null
C6_Witness ==
    /\ pc # "engineer"
    /\ RawIsMapping
    /\ "availability_365" \in DOMAIN raw.items
    /\ raw.items["availability_365"] = NoneV
    /\ feat.raised

\* C7: with a schema loaded, prepare_features_array succeeds on every feature
\* mapping engineer_features returns; it fails only when no schema is loaded.
C7_AlignFailsOnlyWithoutSchema ==
    (pc = "done" /\ ~feat.raised) => (vec.raised => feature_columns.is_none)

\* C7, the case: engineer_features returned a mapping, a schema is loaded, and
\* the alignment raised
C7_Witness ==
    /\ pc = "done"
    /\ ~feat.raised
    /\ ~feature_columns.is_none
    /\ vec.raised

\* C8: for every loaded schema and every feature mapping, the returned vector
\* is one row of exactly len(feature_columns) entries; entry i is the
\* mapping's value for feature_columns[i] when that name is a key and 0
\* otherwise, so keys outside the schema contribute nothing.
C8_AlignedVector ==
    (/\ pc = "done"
     /\ ~feat.raised
     /\ ~feature_columns.is_none)
    => /\ ~vec.raised
       /\ Len(vec.value) = 1
       /\ DOMAIN vec.value[1] = 1..Len(feature_columns.cols)
       /\ \A i \in 1..Len(feature_columns.cols) :
             vec.value[1][i] =
                IF feature_columns.cols[i] \in DOMAIN feat.value
                THEN feat.value[feature_columns.cols[i]]
                ELSE IntV(0)

\* C8, the case: a mapping whose latitude is None, aligned against a schema
\* that has the column: the vector holds NaN there
C8_Witness ==
    /\ pc = "done"
    /\ ~feat.raised /\ ~vec.raised
    /\ ~feature_columns.is_none
    /\ \E i \in DOMAIN feature_columns.cols :
          /\ feature_columns.cols[i] = "latitude"
          /\ feat.value["latitude"] = NoneV
          /\ vec.value[1][i] = NaN

\* every value of the feature mapping is a number
NumericMapping(m) == \A k \in DOMAIN m : IsNumber(m[k])

\* On a mapping of numbers the vector is as C8 says.
AlignedVectorOfNumbers ==
    (/\ pc = "done"
     /\ ~feat.raised
     /\ NumericMapping(feat.value)
     /\ ~feature_columns.is_none)
    => /\ ~vec.raised
       /\ Len(vec.value) = 1
       /\ DOMAIN vec.value[1] = 1..Len(feature_columns.cols)
       /\ \A i \in 1..Len(feature_columns.cols) :
             vec.value[1][i] =
                IF feature_columns.cols[i] \in DOMAIN feat.value
                THEN feat.value[feature_columns.cols[i]]
                ELSE IntV(0)

\* C9: predict_price never answers below 10: the predicted_price of a 200
\* response and the predicted_value of the record handed to the sink are both
\* max(10, model output).
C9_PriceFloor ==
    /\ \A f \in Answered :
          (f.endpoint = "predict_price" /\ f.status = 200) =>
              LET x == f.model_out.value
                  floored == IF Lt(x, IntV(10)) THEN IntV(10) ELSE x
              IN  /\ f.body.predicted_price = floored
                  /\ f.record.predicted_value = floored
                  /\ ~Lt(f.body.predicted_price, IntV(10))
    /\ \A f \in Frames :
          (f.endpoint = "predict_price" /\ f.pc = "wait") =>
              ~Lt(f.record.predicted_value, IntV(10))

\* C9, the case: the model gave a negative price
C9_Witness ==
    \E f \in Answered :
        /\ f.endpoint = "predict_price"
        /\ f.status = 200
        /\ Lt(f.model_out.value, IntV(0))
        /\ f.body.predicted_price = IntV(10)

\* C10: predict_demand clamps the score to [0, 1] and answers 'high-demand'
\* exactly when the clamped score is above 0.5, else 'low-demand' (0.5
\* itself is 'low-demand'); the record handed to the sink has the same class
\* and score as the response.
C10_DemandLabel ==
    \A f \in Answered :
        (f.endpoint = "predict_demand" /\ f.status = 200) =>
            LET x == f.model_out.value
                clamped == IF Lt(x, IntV(0)) THEN IntV(0)
                           ELSE IF Gt(x, IntV(1)) THEN IntV(1) ELSE x
            IN  /\ f.body.probability = clamped
                /\ (f.body.predicted_class = "high-demand") <=> Gt(clamped, Rat(1, 2))
                /\ (f.body.predicted_class = "low-demand") <=> ~Gt(clamped, Rat(1, 2))
                /\ f.record.predicted_class = f.body.predicted_class
                /\ f.record.confidence_score = f.body.probability

\* C10, the case: the tie
C10_Witness ==
    \E f \in Answered :
        /\ f.endpoint = "predict_demand"
        /\ f.status = 200
        /\ f.model_out.value = Rat(1, 2)
        /\ f.body.predicted_class = "low-demand"

\* the model the request's endpoint needs is loaded
EndpointModelLoaded(f) ==
    IF f.endpoint = "predict_price" THEN price_model # NoModel
    ELSE demand_model # NoModel

\* C11: a predict_price or predict_demand request attempts the insert at most
\* once (no retry after a failure), and only when the model is loaded and the
\* parsing, the feature engineering, the alignment and the inference have all
\* succeeded: at every position before the insert no insert has been made.  A
\* request that ends in an error response has attempted no insert, and a
\* request that attempted the insert ends in a 200 response.
C11_SingleInsertAfterInference ==
    \A f \in Frames :
        IsPredict(f) =>
            /\ f.inserts \in {0, 1}
            /\ f.pc \in {"start", "features", "predict", "insert"} => f.inserts = 0
            /\ f.inserts >= 1 =>
                  /\ f.pc \in {"wait", "done"}
                  /\ EndpointModelLoaded(f)
                  /\ ~get_json(f.request).raised
                  /\ ~engineer_features(f.request).raised
                  /\ ~prepare_features_array(engineer_features(f.request).value,
                                             feature_columns).raised
                  /\ f.inferences = 1
                  /\ ~f.model_out.raised
                  /\ f.record # NoRecord
                  /\ f.pc = "done" => f.status = 200
            /\ (f.pc = "done" /\ f.status # 200) =>
                  /\ f.inserts = 0
                  /\ f.record = NoRecord

\* C11, the case: the one insert of a demand prediction failed and the request
\* ended in 200 without another attempt
C11_Witness ==
    \E f \in Answered :
        /\ f.endpoint = "predict_demand"
        /\ f.inserts = 1
        /\ f.sink_out = SinkError
        /\ f.status = 200

\* C11, the other case: the inference raised, and no insert was attempted
C11_ErrorBeforePersistence ==
    \E f \in Answered :
        /\ f.inferences = 1
        /\ f.model_out = InferenceError
        /\ f.status = 500
        /\ f.inserts = 0

\* Two requests in flight at once: one waits for the sink's answer to its
\* insert while the other, which arrived later, has its response already.
Interleaved ==
    \E f \in Frames : \E h \in Answered :
        /\ IsPredict(f) /\ f.pc = "wait"
        /\ h.status = 200

====
